---- MODULE Spec2Model ----
(***************************************************************************)
(* Store-Monitor: the report job (app/report_logic.py generate_report),    *)
(* its data access layer (app/crud.py) and the trigger endpoint            *)
(* (app/main.py).                                                          *)
(*                                                                         *)
(* Instants are whole seconds counted from Monday 2024-01-01T00:00:00Z, so *)
(* the UTC calendar date of an instant t is t \div Day and its weekday     *)
(* (0 = Monday) is that date modulo 7.  Zones are fixed UTC offsets: the   *)
(* modelled weeks contain no DST transition.  Durations are exact          *)
(* rationals <<num, den>> seconds until they are rounded for the row;      *)
(* rounded metrics are integers counting hundredths (of hours or minutes). *)
(* All timestamp strings of one data set use one encoding (enc).           *)
(***************************************************************************)
EXTENDS Integers, Sequences, FiniteSets, TLC

VARIABLES timezones, business_hours, store_status, enc,
          ids, pc, reports, max_timestamp_utc, todo, final_report_data,
          cur, err, resp

vars == <<timezones, business_hours, store_status, enc,
          ids, pc, reports, max_timestamp_utc, todo, final_report_data,
          cur, err, resp>>

data == <<timezones, business_hours, store_status, enc, ids>>

----------------------------------------------------------------------------
(* Bounds of the model *)

MaxPolls == 2

Stores == {"a", "b"}

ReportIds == {"r1", "r2"}

----------------------------------------------------------------------------
(* Time base *)

Hour == 60 * 60

Day == 24 * Hour

Week == 7 * Day

Max(x, y) == IF x >= y THEN x ELSE y

Min(x, y) == IF x <= y THEN x ELSE y

(* datetime.date() / datetime.weekday() of an aware UTC datetime *)
DateOf(t) == t \div Day

WeekdayOf(t) == DateOf(t) % 7

----------------------------------------------------------------------------
(* Values of the data set *)

NoRow == "NoRow"

BadTime == 0 - 1

DefaultZone == "America/Chicago"

KnownZones == {"UTC", "America/Chicago", "Asia/Kolkata"}

(* pytz zone -> utcoffset in seconds (standard time, no transition) *)
ZoneOffset(z) ==
  CASE z = "UTC" -> 0
    [] z = "America/Chicago" -> 0 - 6 * Hour
    [] z = "Asia/Kolkata" -> 5 * Hour + 30 * 60

EndOfDay == 23 * Hour + 59 * 60 + 59

(* business_hours = {day: ('00:00:00', '23:59:59') for day in range(7)} *)
DefaultBusinessHours == [d \in 0..6 |-> <<0, EndOfDay>>]

NoneData == [header |-> "None", rows |-> <<>>]

NoReport == [exists |-> FALSE, status |-> "Not Found", report_data |-> NoneData]

CsvHeader ==
  "store_id,uptime_last_hour,uptime_last_day,uptime_last_week,downtime_last_hour,downtime_last_day,downtime_last_week"

----------------------------------------------------------------------------
(* crud.py *)

(* The store universe without the timezones table *)
TimezoneStoreIdsOmitted == {}

(* CRUDBase.get_by_column(db, 'store_id') on each table *)
TimezoneStoreIds == {s \in Stores : timezones[s] # NoRow}

BusinessHoursStoreIds == {s \in Stores : DOMAIN business_hours[s] # {}}

StatusStoreIds == {s \in Stores : Len(store_status[s]) > 0}

AllPolls == UNION {{store_status[s][i] : i \in 1..Len(store_status[s])} : s \in Stores}

(* StoreStatusCRUD.get_max_timestamp: MAX over the timestamp strings;     *)
(* None when the table is empty.  In one encoding the string order of     *)
(* well-formed timestamps is their time order.                            *)
HasMaxTimestamp == AllPolls # {}

MaxTimestampPoll == CHOOSE p \in AllPolls : \A q \in AllPolls : q.t <= p.t

(* The WHERE clause of get_store_status compares strings.  The bounds are *)
(* datetime.isoformat() of aware datetimes: 'YYYY-MM-DDTHH:MM:SS+00:00'.  *)
(*  iso rows 'YYYY-MM-DDTHH:MM:SS': a row at the very second of the lower *)
(*   bound is a proper prefix of it, hence smaller, hence filtered out;   *)
(*   a row at the second of the upper bound is a prefix of it and kept.   *)
(*  utc rows 'YYYY-MM-DD HH:MM:SS.ffffff UTC': the first difference with  *)
(*   a bound of the same date is ' ' against 'T', and ' ' < 'T', so rows  *)
(*   of the lower bound's date are filtered out and rows of the upper     *)
(*   bound's date are kept.                                               *)
InStringRange(p, start_time, end_time) ==
  IF enc = "iso"
    THEN start_time < p.t /\ p.t <= end_time
    ELSE DateOf(p.t) > DateOf(start_time) /\ DateOf(p.t) <= DateOf(end_time)

get_store_status(store_id, start_time, end_time) ==
  SelectSeq(store_status[store_id], LAMBDA p : InStringRange(p, start_time, end_time))

(* StoreTimezoneCRUD.get_store_timezone: None when there is no row *)
get_store_timezone(store_id) == timezones[store_id]

(* StoreBusinessHoursCRUD.get_business_hours: None when there is no row *)
get_business_hours(store_id) == business_hours[store_id]

(* StoreReportCRUD.update_report: writes only when the record exists *)
update_report(tbl, report_id, status, payload) ==
  IF tbl[report_id].exists
    THEN [tbl EXCEPT ![report_id] = [exists |-> TRUE, status |-> status, report_data |-> payload]]
    ELSE tbl

----------------------------------------------------------------------------
(* report_logic.py: the body of the per-store loop *)

(* One pass of `for i in range(7)`: the window of day = now - i days *)
DayWindow(now, hours, off, i) ==
  LET day == now - i * Day
      day_of_week == WeekdayOf(day)
  IN  IF day_of_week \in DOMAIN hours
        THEN <<[start |-> DateOf(day) * Day + hours[day_of_week][1] - off,
                end   |-> DateOf(day) * Day + hours[day_of_week][2] - off]>>
        ELSE <<>>

RECURSIVE WindowsFrom(_, _, _, _)
WindowsFrom(now, hours, off, i) ==
  IF i > 6 THEN <<>>
  ELSE DayWindow(now, hours, off, i) \o WindowsFrom(now, hours, off, i + 1)

business_intervals_utc(now, hours, off) == WindowsFrom(now, hours, off, 0)

(* time.fromisoformat raises ValueError on a malformed string; all seven  *)
(* weekdays are visited, so any malformed entry is reached.               *)
ScheduleParseFails(hours) ==
  \E d \in DOMAIN hours : hours[d][1] = BadTime \/ hours[d][2] = BadTime

(* The poll loop without line 163: last_poll_time is never advanced *)
RECURSIVE PollIntervalsStale(_, _, _)
PollIntervalsStale(polls, last_poll_time, current_status) ==
  IF polls = <<>> THEN <<>>
  ELSE <<[start |-> last_poll_time, end |-> Head(polls).t, status |-> current_status]>>
       \o PollIntervalsStale(Tail(polls), last_poll_time, Head(polls).status)

(* The poll loop: each pass closes the interval [last_poll_time, poll_time) *)
(* with current_status, then moves on.                                      *)
RECURSIVE PollIntervals(_, _, _)
PollIntervals(polls, last_poll_time, current_status) ==
  IF polls = <<>> THEN <<>>
  ELSE <<[start |-> last_poll_time, end |-> Head(polls).t, status |-> current_status]>>
       \o PollIntervals(Tail(polls), Head(polls).t, Head(polls).status)

StatusIntervals(polls, start_of_week, now) ==
  LET n == Len(polls)
      first_status == IF n > 0 THEN polls[1].status ELSE "active"
      final == [start  |-> IF n > 0 THEN polls[n].t ELSE start_of_week,
                end    |-> now,
                status |-> IF n > 0 THEN polls[n].status ELSE first_status]
  IN  PollIntervals(polls, start_of_week, first_status) \o <<final>>

(* Lines 150-155 without the test of line 154 *)
OverlapUnguarded(iv, w) == Min(iv.end, w.end) - Max(iv.start, w.start)

(* overlap_start < overlap_end ? overlap_end - overlap_start : nothing *)
Overlap(iv, w) ==
  LET overlap_start == Max(iv.start, w.start)
      overlap_end == Min(iv.end, w.end)
  IN  IF overlap_start < overlap_end THEN overlap_end - overlap_start ELSE 0

RECURSIVE SumOverWindows(_, _)
SumOverWindows(iv, windows) ==
  IF windows = <<>> THEN 0
  ELSE Overlap(iv, Head(windows)) + SumOverWindows(iv, Tail(windows))

RECURSIVE Accumulate(_, _, _)
Accumulate(intervals, windows, active) ==
  IF intervals = <<>> THEN 0
  ELSE (IF (Head(intervals).status = "active") = active
          THEN SumOverWindows(Head(intervals), windows) ELSE 0)
       + Accumulate(Tail(intervals), windows, active)

(* round(x, 2) of num/unit, as a count of hundredths; halves go to even *)
Round2(num, unit) ==
  LET q == (100 * num) \div unit
      r == (100 * num) % unit
  IN  IF 2 * r > unit THEN q + 1
      ELSE IF 2 * r < unit THEN q
      ELSE IF q % 2 = 0 THEN q ELSE q + 1

(* Line 185 with the week total multiplied instead of divided *)
LastDayTimesSeven(total, now, start_of_week) ==
  IF now - start_of_week <= Day THEN <<total, 1>> ELSE <<total * 7, 1>>

(* Lines 185-188: the day and hour figures as exact fractions of a total *)
LastDay(total, now, start_of_week) ==
  IF now - start_of_week <= Day THEN <<total, 1>> ELSE <<total, 7>>

LastHour(last_day, now, start_of_week) ==
  IF now - start_of_week <= Hour THEN last_day ELSE <<last_day[1], last_day[2] * 24>>

ReportRow(store_id, total_uptime, total_downtime, now, start_of_week) ==
  LET uptime_last_day == LastDay(total_uptime, now, start_of_week)
      downtime_last_day == LastDay(total_downtime, now, start_of_week)
      uptime_last_hour == LastHour(uptime_last_day, now, start_of_week)
      downtime_last_hour == LastHour(downtime_last_day, now, start_of_week)
  IN  [store_id |-> store_id,
       uptime_last_hour   |-> Round2(uptime_last_hour[1], uptime_last_hour[2] * 60),
       uptime_last_day    |-> Round2(uptime_last_day[1], uptime_last_day[2] * Hour),
       uptime_last_week   |-> Round2(total_uptime, Hour),
       downtime_last_hour |-> Round2(downtime_last_hour[1], downtime_last_hour[2] * 60),
       downtime_last_day  |-> Round2(downtime_last_day[1], downtime_last_day[2] * Hour),
       downtime_last_week |-> Round2(total_downtime, Hour)]

(* Lines 88-199 for one store: the exception that leaves the loop, or the *)
(* locals at the end of the pass.                                         *)
Estimate(store_id, now) ==
  LET tz_row == get_store_timezone(store_id)
      store_timezone_str == IF tz_row = NoRow THEN DefaultZone ELSE tz_row
      hours_row == get_business_hours(store_id)
      hours == IF DOMAIN hours_row = {} THEN DefaultBusinessHours ELSE hours_row
      start_of_week == now - Week
      status_polls == get_store_status(store_id, start_of_week, now)
      none == [exc |-> "none", store_id |-> store_id, zone |-> store_timezone_str,
               start_of_week |-> start_of_week, now |-> now,
               polls |-> status_polls, windows |-> <<>>, intervals |-> <<>>,
               total_uptime |-> 0, total_downtime |-> 0]
  IN  IF store_timezone_str \notin KnownZones
        THEN [none EXCEPT !.exc = "UnknownTimeZoneError"]
      ELSE IF ScheduleParseFails(hours)
        THEN [none EXCEPT !.exc = "ValueError"]
      ELSE IF \E i \in 1..Len(status_polls) : ~status_polls[i].ok
        THEN [none EXCEPT !.exc = "ValueError",
                          !.windows = business_intervals_utc(now, hours, ZoneOffset(store_timezone_str))]
      ELSE LET windows == business_intervals_utc(now, hours, ZoneOffset(store_timezone_str))
               intervals == StatusIntervals(status_polls, start_of_week, now)
           IN  [none EXCEPT !.windows = windows,
                            !.intervals = intervals,
                            !.total_uptime = Accumulate(intervals, windows, TRUE),
                            !.total_downtime = Accumulate(intervals, windows, FALSE)]

NoLocals ==
  [exc |-> "none", store_id |-> "", zone |-> "", start_of_week |-> 0, now |-> 0,
   polls |-> <<>>, windows |-> <<>>, intervals |-> <<>>,
   total_uptime |-> 0, total_downtime |-> 0]

----------------------------------------------------------------------------
(* Data sets *)

NowChoices == {Week, Week + 12 * Hour}

PollOffsets == {Week, Week - Hour, 3 * Day, 100, 0}

GoodPolls(anchor) ==
  {[t |-> anchor - o, status |-> st, ok |-> TRUE] : o \in PollOffsets, st \in {"active", "inactive"}}

BadPolls(anchor) == {[t |-> anchor - 3 * Day, status |-> "active", ok |-> FALSE]}

(* Rows of one store as the table returns them ORDER BY timestamp_utc *)
PollSeqs(anchor) ==
  {<<>>}
  \cup {<<p>> : p \in BadPolls(anchor)}
  \cup UNION {{sq \in [1..n -> GoodPolls(anchor)] :
                 \A i \in 1..(n - 1) : sq[i].t <= sq[i + 1].t} : n \in 1..MaxPolls}

Schedules ==
  { <<>>,
    [d \in 0..4 |-> <<9 * Hour, 17 * Hour>>],
    [d \in {2} |-> <<9 * Hour, 17 * Hour>>],
    [d \in {3} |-> <<17 * Hour, 9 * Hour>>],
    [d \in {0} |-> <<BadTime, 17 * Hour>>] }

ZoneRows == {NoRow, "UTC", "Asia/Kolkata", "Mars/Phobos"}

(* Store b: absent, only a timezone row, or a timezone row and one poll *)
OtherStore(anchor) ==
  { [tz |-> NoRow, polls |-> <<>>],
    [tz |-> "UTC", polls |-> <<>>],
    [tz |-> "UTC", polls |-> <<[t |-> anchor, status |-> "active", ok |-> TRUE]>>] }

----------------------------------------------------------------------------
(* The state machine *)

InitJobs ==
  /\ pc = [r \in ReportIds |-> "idle"]
  /\ reports = [r \in ReportIds |-> NoReport]
  /\ max_timestamp_utc = [r \in ReportIds |-> 0]
  /\ todo = [r \in ReportIds |-> {}]
  /\ final_report_data = [r \in ReportIds |-> <<>>]
  /\ cur = [r \in ReportIds |-> NoLocals]
  /\ err = [r \in ReportIds |-> "none"]
  /\ resp = [r \in ReportIds |-> "none"]

Init ==
  /\ \E anchor \in NowChoices : \E b \in OtherStore(anchor) :
       /\ \E z \in ZoneRows : timezones = [s \in Stores |-> IF s = "a" THEN z ELSE b.tz]
       /\ \E h \in Schedules : business_hours = [s \in Stores |-> IF s = "a" THEN h ELSE <<>>]
       /\ \E sq \in PollSeqs(anchor) :
            store_status = [s \in Stores |-> IF s = "a" THEN sq ELSE b.polls]
  /\ enc \in {"iso", "utc"}
  /\ ids = {"r1"}
  /\ InitJobs

(* main.py trigger_report: a fresh uuid, the job is queued *)
trigger_report(r) ==
  /\ r \in ids
  /\ pc[r] = "idle"
  /\ pc' = [pc EXCEPT ![r] = "queued"]
  /\ UNCHANGED <<data, reports, max_timestamp_utc, todo, final_report_data, cur, err, resp>>

(* Lines 53-54: the record is created and committed *)
CreateRecord(r) ==
  /\ pc[r] = "queued"
  /\ reports' = [reports EXCEPT ![r] = [exists |-> TRUE, status |-> "Running", report_data |-> NoneData]]
  /\ pc' = [pc EXCEPT ![r] = "created"]
  /\ UNCHANGED <<data, max_timestamp_utc, todo, final_report_data, cur, err, resp>>

(* Lines 58-81: the store universe and the reference instant.  With an    *)
(* empty poll table `' UTC' in None` raises TypeError; a malformed        *)
(* maximum raises ValueError.  There is no except clause: the exception   *)
(* leaves generate_report through `finally: db.close()`.                  *)
ReadUniverse(r) ==
  /\ pc[r] = "created"
  /\ IF ~HasMaxTimestamp
       THEN /\ pc' = [pc EXCEPT ![r] = "raised"]
            /\ err' = [err EXCEPT ![r] = "TypeError"]
            /\ UNCHANGED <<max_timestamp_utc, todo>>
     ELSE IF ~MaxTimestampPoll.ok
       THEN /\ pc' = [pc EXCEPT ![r] = "raised"]
            /\ err' = [err EXCEPT ![r] = "ValueError"]
            /\ UNCHANGED <<max_timestamp_utc, todo>>
     ELSE /\ pc' = [pc EXCEPT ![r] = "loop"]
          /\ max_timestamp_utc' = [max_timestamp_utc EXCEPT ![r] = MaxTimestampPoll.t]
          /\ todo' = [todo EXCEPT ![r] =
                        TimezoneStoreIds \cup BusinessHoursStoreIds \cup StatusStoreIds]
          /\ UNCHANGED err
  /\ UNCHANGED <<data, reports, final_report_data, cur, resp>>

(* Lines 84-199: one pass of `for store_id in all_store_ids`; a set is    *)
(* iterated in an order the program does not choose.                      *)
ProcessStore(r, s) ==
  /\ pc[r] = "loop"
  /\ s \in todo[r]
  /\ LET e == Estimate(s, max_timestamp_utc[r])
     IN  /\ cur' = [cur EXCEPT ![r] = e]
         /\ IF e.exc # "none"
              THEN /\ pc' = [pc EXCEPT ![r] = "raised"]
                   /\ err' = [err EXCEPT ![r] = e.exc]
                   /\ UNCHANGED <<todo, final_report_data>>
              ELSE /\ final_report_data' =
                        [final_report_data EXCEPT ![r] =
                           Append(@, ReportRow(s, e.total_uptime, e.total_downtime,
                                               e.now, e.start_of_week))]
                   /\ todo' = [todo EXCEPT ![r] = @ \ {s}]
                   /\ UNCHANGED <<pc, err>>
  /\ UNCHANGED <<data, reports, max_timestamp_utc, resp>>

(* Lines 204-210: the rows are rendered in list order and the record is   *)
(* updated to Complete.                                                   *)
CompleteReport(r) ==
  /\ pc[r] = "loop"
  /\ todo[r] = {}
  /\ reports' = update_report(reports, r, "Complete",
                              [header |-> CsvHeader, rows |-> final_report_data[r]])
  /\ pc' = [pc EXCEPT ![r] = "done"]
  /\ UNCHANGED <<data, max_timestamp_utc, todo, final_report_data, cur, err, resp>>

Next ==
  \/ \E r \in ReportIds : trigger_report(r)
  \/ \E r \in ReportIds : CreateRecord(r)
  \/ \E r \in ReportIds : ReadUniverse(r)
  \/ \E r \in ReportIds, s \in Stores : ProcessStore(r, s)
  \/ \E r \in ReportIds : CompleteReport(r)

Spec == Init /\ [][Next]_vars

(* report_logic.py get_report_status: the record of report_id, or          *)
(* "Not Found" when there is none.                                         *)
get_report_status(report_id) ==
  IF ~reports[report_id].exists THEN "Not Found" ELSE reports[report_id].status

(* main.py get_report, requested by a client for an id that trigger_report *)
(* has returned: HTTP 404 on "Not Found", else the status.                 *)
get_report(r) ==
  /\ r \in ids
  /\ pc[r] # "idle"
  /\ resp' = [resp EXCEPT ![r] =
                IF get_report_status(r) = "Not Found" THEN "404" ELSE get_report_status(r)]
  /\ UNCHANGED <<data, pc, reports, max_timestamp_utc, todo, final_report_data, cur, err>>

(* Two requests to /trigger-report over a small data set: each background  *)
(* task runs generate_report in its own worker thread.                     *)
InitHttp ==
  /\ \E z \in {"UTC", "Mars/Phobos"} : timezones = [s \in Stores |-> IF s = "a" THEN z ELSE "UTC"]
  /\ business_hours = [s \in Stores |-> <<>>]
  /\ \E sq \in {<<>>, <<[t |-> Week, status |-> "active", ok |-> TRUE]>>} :
       store_status = [s \in Stores |-> IF s = "a" THEN sq ELSE <<>>]
  /\ enc = "iso"
  /\ ids = ReportIds
  /\ InitJobs

NextHttp ==
  \/ Next
  \/ \E r \in ReportIds : get_report(r)

SpecHttp == InitHttp /\ [][NextHttp]_vars

----------------------------------------------------------------------------
(* Vocabulary of the properties *)

Finished(r) == pc[r] \in {"done", "raised"}

(* The job r has just completed a pass of the store loop without raising *)
Processed(r) ==
  /\ cur[r].store_id # ""
  /\ cur[r].exc = "none"
  /\ Len(final_report_data[r]) > 0

LastRow(r) == final_report_data[r][Len(final_report_data[r])]

(* The schedule in force for a store: its rows, or open around the clock *)
AlwaysOpen(store_id) == DOMAIN business_hours[store_id] = {}

(* Scheduled business time of the local dates from..to inside [lo, hi) *)
RECURSIVE ScheduledDates(_, _, _, _, _, _)
ScheduledDates(hours, off, lo, hi, from, to) ==
  IF from > to THEN 0
  ELSE (IF (from % 7) \in DOMAIN hours
          THEN Overlap([start |-> lo, end |-> hi],
                       [start |-> from * Day + hours[from % 7][1] - off,
                        end   |-> from * Day + hours[from % 7][2] - off])
          ELSE 0)
       + ScheduledDates(hours, off, lo, hi, from + 1, to)

ScheduledIn(store_id, off, lo, hi) ==
  IF AlwaysOpen(store_id) THEN hi - lo
  ELSE ScheduledDates(business_hours[store_id], off, lo, hi,
                      DateOf(lo + off) - 1, DateOf(hi + off) + 1)

(* The business windows clipped to [lo, hi) *)
Clip(windows, lo, hi) ==
  [i \in 1..Len(windows) |->
     [start |-> Max(windows[i].start, lo), end |-> Min(windows[i].end, hi)]]

IsSpan(polls, lo, hi) ==
  /\ Len(polls) > 0
  /\ polls[1].t = lo
  /\ polls[Len(polls)].t = hi

AllActive(polls) == \A i \in 1..Len(polls) : polls[i].ok /\ polls[i].status = "active"

----------------------------------------------------------------------------
(* C1: every record created Running ends, once generate_report has         *)
(* returned or raised, in Complete with a payload or in Failed.            *)
C1_RecordReachesTerminal ==
  \A r \in ReportIds :
    (Finished(r) /\ reports[r].exists) =>
      \/ reports[r].status = "Complete" /\ reports[r].report_data # NoneData
      \/ reports[r].status = "Failed"

(* C2: for each window W the reported uptime_W + downtime_W does not       *)
(* exceed the scheduled business time inside W (one rounding step of       *)
(* slack: a hundredth of an hour is 36 s, six hundredths of a minute are   *)
(* 36/10 s).                                                               *)
C2_BudgetBound ==
  \A r \in ReportIds :
    Processed(r) =>
      LET c == cur[r]
          row == LastRow(r)
          off == ZoneOffset(c.zone)
      IN  /\ 36 * (row.uptime_last_week + row.downtime_last_week)
               <= ScheduledIn(c.store_id, off, c.now - Week, c.now) + 36
          /\ 36 * (row.uptime_last_day + row.downtime_last_day)
               <= ScheduledIn(c.store_id, off, c.now - Day, c.now) + 36
          /\ 6 * (row.uptime_last_hour + row.downtime_last_hour)
               <= 10 * ScheduledIn(c.store_id, off, c.now - Hour, c.now) + 6

(* C3: the day and hour figures are the accumulation over the business     *)
(* windows clipped to [now-24h, now) and [now-1h, now).                    *)
C3_ClippedWindows ==
  \A r \in ReportIds :
    Processed(r) =>
      LET c == cur[r]
          row == LastRow(r)
          day == Clip(c.windows, c.now - Day, c.now)
          hour == Clip(c.windows, c.now - Hour, c.now)
      IN  /\ row.uptime_last_day = Round2(Accumulate(c.intervals, day, TRUE), Hour)
          /\ row.downtime_last_day = Round2(Accumulate(c.intervals, day, FALSE), Hour)
          /\ row.uptime_last_hour = Round2(Accumulate(c.intervals, hour, TRUE), 60)
          /\ row.downtime_last_hour = Round2(Accumulate(c.intervals, hour, FALSE), 60)

(* C4: a store without schedule rows in zone UTC whose polls are all       *)
(* active and span [now-7d, now] gets 168.00 / 24.00 / 60.00 and no        *)
(* downtime.                                                               *)
C4_AlwaysOpenAllActive ==
  \A r \in ReportIds :
    (/\ Processed(r)
     /\ AlwaysOpen(cur[r].store_id)
     /\ timezones[cur[r].store_id] = "UTC"
     /\ AllActive(store_status[cur[r].store_id])
     /\ IsSpan(store_status[cur[r].store_id], cur[r].now - Week, cur[r].now))
    => LET row == LastRow(r)
       IN  /\ row.uptime_last_week = 16800
           /\ row.uptime_last_day = 2400
           /\ row.uptime_last_hour = 6000
           /\ row.downtime_last_week = 0
           /\ row.downtime_last_day = 0
           /\ row.downtime_last_hour = 0

(* C5: no fault of a single store (unknown zone, malformed time of day,    *)
(* malformed poll timestamp) ends the job: a job never stops on an         *)
(* exception raised inside a pass of the store loop.                       *)
C5_StoreFaultContained ==
  \A r \in ReportIds : pc[r] = "raised" => cur[r].exc = "none"

(* C6: with an empty poll table the finished job leaves the record Failed. *)
C6_EmptyPollTableFails ==
  \A r \in ReportIds :
    (Finished(r) /\ ~HasMaxTimestamp) => reports[r].status = "Failed"

(* C7: the status intervals walked for a store are contiguous from        *)
(* now-7d to now, none is inverted, and each carries one status: they      *)
(* partition [now-7d, now).                                                *)
C7_StatusIntervalsPartition ==
  \A r \in ReportIds :
    Processed(r) =>
      LET iv == cur[r].intervals
          n == Len(iv)
      IN  /\ n = Len(cur[r].polls) + 1
          /\ iv[1].start = cur[r].now - Week
          /\ iv[n].end = cur[r].now
          /\ \A i \in 1..(n - 1) : iv[i].end = iv[i + 1].start
          /\ \A i \in 1..n : iv[i].start <= iv[i].end
          /\ \A i \in 1..n : iv[i].status \in {"active", "inactive"}
          /\ \A x \in {iv[i].start : i \in 1..n} \cup {cur[r].now - 1} :
               (cur[r].now - Week <= x /\ x < cur[r].now) =>
                 Cardinality({i \in 1..n : iv[i].start <= x /\ x < iv[i].end}) = 1

(* Witness of C7: a walk over two polls at distinct instants strictly      *)
(* inside the week, which yields three intervals of positive length.       *)
C7_Witness ==
  \E r \in ReportIds :
    /\ Processed(r)
    /\ Len(cur[r].intervals) = 3
    /\ \A i \in 1..3 : cur[r].intervals[i].start < cur[r].intervals[i].end
    /\ cur[r].intervals[1].status # cur[r].intervals[3].status

(* The polls of a store that lie in [lo, hi], in table order *)
PollsWithin(store_id, lo, hi) ==
  SelectSeq(store_status[store_id], LAMBDA p : lo <= p.t /\ p.t <= hi)

(* The statuses the rule of C8 allows at instant x *)
RuleStatuses(polls, x) ==
  LET before == {i \in 1..Len(polls) : polls[i].t <= x}
  IN  IF polls = <<>> THEN {"active"}
      ELSE IF before = {} THEN {polls[1].status}
      ELSE {polls[i].status : i \in {j \in before : \A k \in before : polls[k].t <= polls[j].t}}

(* The status the walk attributes to instant x *)
WalkStatuses(intervals, x) ==
  {intervals[i].status : i \in {j \in 1..Len(intervals) :
                                  intervals[j].start <= x /\ x < intervals[j].end}}

Instants(c) ==
  {x \in {c.now - Week, c.now - Week + 1, c.now - 1}
         \cup UNION {{c.polls[i].t - 1, c.polls[i].t, c.polls[i].t + 1} : i \in 1..Len(c.polls)} :
     c.now - Week <= x /\ x < c.now}

(* C8: every instant of [now-7d, now) gets the status of the latest poll   *)
(* of the store at or before it, else of the store's first poll in the     *)
(* interval, else active; a store whose only poll is inactive has no       *)
(* uptime and all the time of its windows inside the week as downtime.     *)
C8_StatusAttribution ==
  \A r \in ReportIds :
    Processed(r) =>
      LET c == cur[r]
          polls == PollsWithin(c.store_id, c.now - Week, c.now)
      IN  /\ \A x \in Instants(c) : WalkStatuses(c.intervals, x) \subseteq RuleStatuses(polls, x)
          /\ (Len(polls) = 1 /\ polls[1].status = "inactive") =>
               /\ LastRow(r).uptime_last_week = 0
               /\ c.total_downtime =
                    SumOverWindows([start |-> c.now - Week, end |-> c.now], c.windows)

(* The same rule read over the polls that get_store_status returned *)
StatusAttributionOnReturnedPolls ==
  \A r \in ReportIds :
    Processed(r) =>
      \A x \in Instants(cur[r]) :
        WalkStatuses(cur[r].intervals, x) \subseteq RuleStatuses(cur[r].polls, x)

(* C9 as stated: on the rounded figures of a row, hour/60 <= day <= week   *)
(* for uptime and for downtime (hour in hundredths of minutes, day and     *)
(* week in hundredths of hours).                                           *)
C9_MonotoneRounded ==
  \A r \in ReportIds :
    Processed(r) =>
      LET row == LastRow(r)
      IN  /\ row.uptime_last_hour <= 60 * row.uptime_last_day
          /\ row.uptime_last_day <= row.uptime_last_week
          /\ row.downtime_last_hour <= 60 * row.downtime_last_day
          /\ row.downtime_last_day <= row.downtime_last_week

(* C9 amended: on the rounded figures day <= week; hour/60 <= day whenever *)
(* the day figure is not 0.00, and the hour figure is at most 0.01 minute  *)
(* when the day figure is 0.00.                                            *)
C9_MonotoneUpToRounding ==
  \A r \in ReportIds :
    Processed(r) =>
      LET row == LastRow(r)
      IN  /\ row.uptime_last_day <= row.uptime_last_week
          /\ row.downtime_last_day <= row.downtime_last_week
          /\ row.uptime_last_hour <= 60 * row.uptime_last_day + 1
          /\ row.downtime_last_hour <= 60 * row.downtime_last_day + 1
          /\ row.uptime_last_day > 0 => row.uptime_last_hour <= 60 * row.uptime_last_day
          /\ row.downtime_last_day > 0 => row.downtime_last_hour <= 60 * row.downtime_last_day

(* Witness of C9: a row with uptime and downtime whose day figures are     *)
(* positive and strictly below the week figures.                           *)
C9_Witness ==
  \E r \in ReportIds :
    /\ Processed(r)
    /\ 0 < LastRow(r).uptime_last_hour
    /\ 0 < LastRow(r).uptime_last_day
    /\ LastRow(r).uptime_last_day < LastRow(r).uptime_last_week
    /\ 0 < LastRow(r).downtime_last_day
    /\ LastRow(r).downtime_last_day < LastRow(r).downtime_last_week

(* Lexicographic rank of the store identifiers *)
StoreRank(store_id) == IF store_id = "a" THEN 1 ELSE 2

(* C10: the rows of a completed payload are sorted by store_id.            *)
C10_RowsSortedByStoreId ==
  \A r \in ReportIds :
    reports[r].status = "Complete" =>
      LET rows == reports[r].report_data.rows
      IN  \A i \in 1..(Len(rows) - 1) :
            StoreRank(rows[i].store_id) < StoreRank(rows[i + 1].store_id)

(* C12: at most one execution of generate_report is in progress at a time. *)
C12_OneJobAtATime ==
  Cardinality({r \in ReportIds : pc[r] \in {"created", "loop"}}) <= 1

(* C16: the lookup of a report_id that trigger_report has returned never   *)
(* answers 404.                                                            *)
C16_ReturnedIdIsKnown ==
  \A r \in ReportIds : pc[r] # "idle" => resp[r] # "404"

(* The store ids that occur in at least one of the three source tables *)
SourceStoreIds ==
  {s \in Stores : \/ timezones[s] # NoRow
                  \/ DOMAIN business_hours[s] # {}
                  \/ store_status[s] # <<>>}

(* C11: a completed report has exactly one row for every store id of the   *)
(* three source tables and no other row.                                   *)
C11_OneRowPerSourceStore ==
  \A r \in ReportIds :
    reports[r].status = "Complete" =>
      LET rows == reports[r].report_data.rows
      IN  /\ {rows[i].store_id : i \in 1..Len(rows)} = SourceStoreIds
          /\ \A i, j \in 1..Len(rows) : rows[i].store_id = rows[j].store_id => i = j

(* Witness of C11: a completed report with a row for a store that has only *)
(* a timezone row and a row for a store that has polls.                    *)
C11_Witness ==
  \E r \in ReportIds :
    /\ reports[r].status = "Complete"
    /\ Len(reports[r].report_data.rows) = 2
    /\ \E s \in Stores :
         /\ timezones[s] # NoRow
         /\ DOMAIN business_hours[s] = {}
         /\ store_status[s] = <<>>
         /\ \E i \in 1..2 : reports[r].report_data.rows[i].store_id = s

(* The schedule in force for a store *)
HoursInForce(store_id) ==
  IF AlwaysOpen(store_id) THEN DefaultBusinessHours ELSE business_hours[store_id]

(* C13: the windows built for a store contain the window of every local    *)
(* calendar date, taken in the store's zone, that meets [now-7d, now] and  *)
(* has a schedule entry for its day of week.                               *)
C13_WindowOfEveryLocalDate ==
  \A r \in ReportIds :
    Processed(r) =>
      LET c == cur[r]
          off == ZoneOffset(c.zone)
          hours == HoursInForce(c.store_id)
      IN  \A d \in DateOf(c.now - Week + off)..DateOf(c.now + off) :
            (d % 7) \in DOMAIN hours =>
              \E i \in 1..Len(c.windows) :
                /\ c.windows[i].start = d * Day + hours[d % 7][1] - off
                /\ c.windows[i].end = d * Day + hours[d % 7][2] - off

(* C14: when several polls carry the same timestamp t, the first of them   *)
(* gives the status of the interval of positive length that starts at t.   *)
C14_FirstDuplicateWins ==
  \A r \in ReportIds :
    Processed(r) =>
      LET polls == cur[r].polls
          iv == cur[r].intervals
      IN  \A i \in 1..(Len(polls) - 1) :
            (/\ polls[i].t = polls[i + 1].t
             /\ (i = 1 \/ polls[i - 1].t < polls[i].t))
            => \A k \in 1..Len(iv) :
                 (iv[k].start = polls[i].t /\ iv[k].start < iv[k].end)
                 => iv[k].status = polls[i].status

(* Length of the part of a window inside [lo, hi), nothing when inverted *)
InsideWeek(w, lo, hi) ==
  IF Min(w.end, hi) - Max(w.start, lo) > 0
    THEN Min(w.end, hi) - Max(w.start, lo) ELSE 0

RECURSIVE SumInsideWeek(_, _, _)
SumInsideWeek(windows, lo, hi) ==
  IF windows = <<>> THEN 0
  ELSE InsideWeek(Head(windows), lo, hi) + SumInsideWeek(Tail(windows), lo, hi)

====
